---- MODULE Spec2Model ----
(***************************************************************************)
(* A model of src/main.py: the bookstore / location-log HTTP service.      *)
(*                                                                         *)
(* State: the two module-level lists BOOKS and LOCATIONS, the contents of  *)
(* the two backing files, the number of add requests accepted by the       *)
(* server that wait for the event loop (ready), the add handlers that are  *)
(* inside their body (running), and the response sent by the last step     *)
(* (resp; NoResp when the last step answered no request).                  *)
(* The variables added, failed and dirty are history variables, never read *)
(* by the modelled code: added lists, for each add_book answered 200, the  *)
(* fields the client sent with the book_id it was answered; failed[op]     *)
(* says that a file write of op has raised; dirty[op] says that one has    *)
(* raised since the list of op was last written or loaded. The fields req  *)
(* and race of a response are history too.                                 *)
(***************************************************************************)
EXTENDS Integers, Sequences, FiniteSets

VARIABLES BOOKS, LOCATIONS, books_json, locations_json,
          ready, running, resp, added, failed, dirty

vars == <<BOOKS, LOCATIONS, books_json, locations_json,
          ready, running, resp, added, failed, dirty>>

----------------------------------------------------------------------------
(* Bounds of the model.                                                    *)

\* most records the two lists hold together
MaxRecords == 3
\* most add requests accepted and not yet answered at one time
MaxInflight == 2

----------------------------------------------------------------------------
(* Input domains.                                                          *)

GENRES == {"fiction", "non-fiction"}

\* genres a client may send: the two of the Literal and one outside it
RequestGenres == GENRES \cup {"mystery"}

Names == {"Dune"}

Prices == {1}

\* uuid4().hex: a random 128-bit token. The n-th token stands for the one drawn
\* for a list of n - 1 books: it differs from theirs (a collision of two
\* random tokens is not modelled).
Uuid(n) == <<"uuid4", n>>

NoId == <<"None", 0>>

\* book_id values a client may put in the request body: none, or its own
ClientIds == {NoId, <<"client", 0>>}

\* book_id values a client may ask get_book for
QueryIds == {Uuid(1), <<"client", 0>>}

\* datetime has microsecond resolution; the model counts time in half
\* microseconds, so that a caller-supplied time can fall between two
\* microseconds
TicksPerUs == 2

\* the largest time (in ticks) datetime.fromtimestamp can represent
\* (year 9999), scaled down to the model's integers
MaxRepresentable == 3

\* times a client may send: half a microsecond, one microsecond, and one
\* past the range of datetime
Times == {1, 2, MaxRepresentable + 1}

Lats == {0}

Lngs == {0}

\* path indexes a client may ask for
Indexes == (0 - (MaxRecords + 1)) .. MaxRecords

AddOps == {"add_book", "add_location"}

----------------------------------------------------------------------------
(* Python values.                                                          *)

\* a pydantic model instance: attributes are read with obj.attr
Object(cls, fields) == [cls |-> cls, fields |-> fields]

IsObject(x) == "cls" \in DOMAIN x

\* x.attr: defined on a model instance, AttributeError on a dict
HasAttr(x, attr) == IsObject(x) /\ attr \in DOMAIN x.fields

\* jsonable_encoder(obj): the dict of the model's fields
jsonable_encoder(obj) == obj.fields

BookKeys == <<"name", "genre", "price", "book_id">>

LocationKeys == <<"time", "lat", "lng">>

\* json.dump of one dict: its items in insertion order
DumpObject(d, keys) == [i \in 1..Len(keys) |-> <<keys[i], d[keys[i]]>>]

\* json.dump(list, f): the text written for a list of dicts
JsonDump(list, keys) == [i \in 1..Len(list) |-> DumpObject(list[i], keys)]

\* json.load of one object: a dict of its items
LoadObject(items) ==
  [k \in {items[i][1] : i \in 1..Len(items)} |->
     LET i == CHOOSE j \in 1..Len(items) : items[j][1] = k IN items[i][2]]

JsonLoad(text) == [i \in 1..Len(text) |-> LoadObject(text[i])]

\* the content of a file: absent, a complete JSON text, or a truncated one
Absent == [kind |-> "absent", text |-> <<>>]

Truncated == [kind |-> "truncated", text |-> <<>>]

JsonFile(text) == [kind |-> "json", text |-> text]

\* os.path.exists + json.load at import: an absent file gives [], a text that is
\* not JSON raises and the process does not start
Loadable(file) == file.kind \in {"absent", "json"}

StartupLoad(file) == IF file.kind = "json" THEN JsonLoad(file.text) ELSE <<>>

----------------------------------------------------------------------------
(* Requests and responses.                                                 *)

BookRequests ==
  [name : Names, genre : RequestGenres, price : Prices, book_id : ClientIds]

\* a body with the three fields, or one whose time is missing
LocationRequests ==
  [time : Times, lat : Lats, lng : Lngs] \cup [lat : Lats, lng : Lngs]

NoResp ==
  [op |-> "none", req |-> <<>>, status |-> 0, body |-> <<>>, race |-> 0]

Response(op, req, status, body) ==
  [op |-> op, req |-> req, status |-> status, body |-> body, race |-> 0]

\* add requests accepted and not yet answered
Inflight == ready + Cardinality(running)

\* a handler that could start while another is inside its body (a def handler
\* run in the thread pool, or an await between the append and the write)
AnyTime == TRUE

\* An async def handler without an await runs from its first line to its
\* return before the event loop runs anything else: a handler starts only when
\* none is inside its body.
LoopFree == running = {}

Init ==
  /\ books_json = Absent
  /\ locations_json = Absent
  /\ BOOKS = StartupLoad(books_json)
  /\ LOCATIONS = StartupLoad(locations_json)
  /\ ready = 0
  /\ running = {}
  /\ resp = NoResp
  /\ added = <<>>
  /\ failed = [o \in AddOps |-> FALSE]
  /\ dirty = [o \in AddOps |-> FALSE]

----------------------------------------------------------------------------
(* The pure parts of the handlers.                                         *)

\* a Book whose genre were declared str
AnyGenre(req) == TRUE

\* pydantic's check of the request body against class Book / class Location
ValidBook(req) == req.genre \in GENRES

ValidLocation(req) == "time" \in DOMAIN req

\* an add_book that generated an id only when the client sent none
KeepClientId(req, uuid) ==
  Object("Book", [req EXCEPT !.book_id = IF req.book_id = NoId THEN uuid ELSE @])

\* book.book_id = uuid4().hex: the generated value replaces what the client sent
AssignId(req, uuid) == Object("Book", [req EXCEPT !.book_id = uuid])

\* list[index] of Python: a negative index counts from the end, and one outside
\* -len .. len-1 raises IndexError
PyIndexable(list, index) == 0 - Len(list) <= index /\ index < Len(list)

PyIndex(list, index) ==
  IF index >= 0 THEN list[index + 1] ELSE list[Len(list) + index + 1]

NotFoundIndex(index, len) == <<"Book index", index, "out of range", len>>

\* book_by_index with index <= len(BOOKS) for its test
BookByIndexOffByOne(index) ==
  IF index <= Len(BOOKS)
  THEN IF PyIndexable(BOOKS, index)
       THEN Response("book_by_index", index, 200, PyIndex(BOOKS, index))
       ELSE Response("book_by_index", index, 500, <<"IndexError">>)
  ELSE Response("book_by_index", index, 404, NotFoundIndex(index, Len(BOOKS)))

\* book_by_index: the branch taken and what it answers
BookByIndex(index) ==
  IF index < Len(BOOKS)
  THEN IF PyIndexable(BOOKS, index)
       THEN Response("book_by_index", index, 200, PyIndex(BOOKS, index))
       ELSE Response("book_by_index", index, 500, <<"IndexError">>)
  ELSE Response("book_by_index", index, 404, NotFoundIndex(index, Len(BOOKS)))

\* get_book: the loop reads book.book_id of each element in turn; the first
\* element that has no such attribute ends the request with AttributeError
RECURSIVE ScanBooks(_, _, _)
ScanBooks(books, i, book_id) ==
  IF i > Len(books)
  THEN Response("get_book", book_id, 404, <<"Book ID", book_id, "not found">>)
  ELSE IF ~HasAttr(books[i], "book_id")
       THEN Response("get_book", book_id, 500, <<"AttributeError">>)
       ELSE IF books[i].fields.book_id = book_id
            THEN Response("get_book", book_id, 200, books[i])
            ELSE ScanBooks(books, i + 1, book_id)

GetBook(book_id) == ScanBooks(BOOKS, 1, book_id)

\* sorted(list, key=time, reverse=True): stable, so records of equal time keep
\* their order; computed by insertion
RECURSIVE InsertDesc(_, _)
InsertDesc(sorted, x) ==
  IF sorted = <<>> THEN <<x>>
  ELSE IF Head(sorted).time >= x.time
       THEN <<Head(sorted)>> \o InsertDesc(Tail(sorted), x)
       ELSE <<x>> \o sorted

RECURSIVE SortedDesc(_)
SortedDesc(list) ==
  IF list = <<>> THEN <<>>
  ELSE InsertDesc(SortedDesc(SubSeq(list, 1, Len(list) - 1)), list[Len(list)])

\* datetime.fromtimestamp(ms / 1000.0): raises outside the range of datetime,
\* and rounds to the nearest microsecond, a half to the even one
CanConvert(time) == time <= MaxRepresentable

RoundHalfEven(ticks) ==
  LET lo == ticks \div TicksPerUs
      rem == ticks % TicksPerUs
  IN  IF 2 * rem < TicksPerUs THEN lo
      ELSE IF 2 * rem > TicksPerUs THEN lo + 1
      ELSE IF lo % 2 = 0 THEN lo ELSE lo + 1

\* dt.isoformat(): the local timestamp, to the microsecond
IsoFormat(us) == <<"iso", us>>

\* loc.copy() with its time replaced
Converted(loc) == [loc EXCEPT !.time = IsoFormat(RoundHalfEven(loc.time))]

GetLocations ==
  LET sorted_locations == SortedDesc(LOCATIONS) IN
  IF \E i \in 1..Len(sorted_locations) : ~CanConvert(sorted_locations[i].time)
  THEN Response("get_locations", <<>>, 500, <<"ValueError">>)
  ELSE Response("get_locations", <<>>, 200,
                [i \in 1..Len(sorted_locations) |-> Converted(sorted_locations[i])])

\* a get_locations that sorted with LOCATIONS.sort(...)
SortedInPlace == SortedDesc(LOCATIONS)

\* what get_locations leaves in LOCATIONS: sorted() builds a new list, and
\* loc.copy() a new dict
LocationsAfterGet == LOCATIONS

\* a handler that wrote the file before it appended
ListBeforeAppend(op) ==
  IF op = "add_book" THEN JsonDump(SubSeq(BOOKS, 1, Len(BOOKS) - 1), BookKeys)
  ELSE JsonDump(SubSeq(LOCATIONS, 1, Len(LOCATIONS) - 1), LocationKeys)

\* what json.dump is handed once the handler has appended: the whole list
DumpedList(op) ==
  IF op = "add_book" THEN JsonDump(BOOKS, BookKeys)
  ELSE JsonDump(LOCATIONS, LocationKeys)

\* a handler that removed its record when the write raised
RolledBack(list) == SubSeq(list, 1, Len(list) - 1)

\* the list a handler leaves behind when its write raised: nothing is undone
AfterWriteError(list) == list

\* an add handler inside its body: its request, the dict it appended, where it
\* stands, and the text it is writing. race is 1 when the request answered
\* just before was an add to the same list that ended while this one was in
\* flight.
Task(op, req, rec, stage, buf) ==
  [op |-> op, req |-> req, rec |-> rec, stage |-> stage, buf |-> buf,
   race |-> IF resp.op = op /\ resp.race > 0 THEN 1 ELSE 0]

----------------------------------------------------------------------------
(* The environment: a client sends an add request. The server accepts it   *)
(* at any time; its handler runs when the event loop takes it up, and the  *)
(* route and the body of the request are read then.                        *)

Issue ==
  /\ Inflight < MaxInflight
  /\ ready' = ready + 1
  /\ resp' = NoResp
  /\ UNCHANGED <<BOOKS, LOCATIONS, books_json, locations_json, running,
                 added, failed, dirty>>

----------------------------------------------------------------------------
(* The read handlers. Each is one run of the event loop.                   *)

root ==
  /\ LoopFree
  /\ resp' = Response("root", <<>>, 200,
                      [message |-> "Welcome to my bookstore app!"])
  /\ UNCHANGED <<BOOKS, LOCATIONS, books_json, locations_json, ready, running,
                 added, failed, dirty>>

list_books ==
  /\ LoopFree
  /\ resp' = Response("list_books", <<>>, 200, [books |-> BOOKS])
  /\ UNCHANGED <<BOOKS, LOCATIONS, books_json, locations_json, ready, running,
                 added, failed, dirty>>

book_by_index(index) ==
  /\ LoopFree
  /\ resp' = BookByIndex(index)
  /\ UNCHANGED <<BOOKS, LOCATIONS, books_json, locations_json, ready, running,
                 added, failed, dirty>>

get_book(book_id) ==
  /\ LoopFree
  /\ resp' = GetBook(book_id)
  /\ UNCHANGED <<BOOKS, LOCATIONS, books_json, locations_json, ready, running,
                 added, failed, dirty>>

get_locations ==
  /\ LoopFree
  /\ resp' = GetLocations
  /\ LOCATIONS' = LocationsAfterGet
  /\ UNCHANGED <<BOOKS, books_json, locations_json, ready, running,
                 added, failed, dirty>>

----------------------------------------------------------------------------
(* add_book and add_location. The framework validates the body and answers *)
(* 422 without calling the handler; the handler appends, opens the file    *)
(* for writing (which truncates it), and writes the list. open() and the   *)
(* write can each raise OSError, which ends the request with a 500.        *)

Rejected(op, req) ==
  /\ resp' = Response(op, req, 422, <<"ValidationError">>)
  /\ UNCHANGED <<BOOKS, LOCATIONS, books_json, locations_json, running,
                 added, failed, dirty>>

add_book(req) ==
  /\ LoopFree
  /\ ready > 0
  /\ ready' = ready - 1
  /\ \/ ~ValidBook(req) /\ Rejected("add_book", req)
     \/ /\ ValidBook(req)
        /\ Len(BOOKS) + Len(LOCATIONS) < MaxRecords
        /\ LET book == AssignId(req, Uuid(Len(BOOKS) + 1))
               json_book == jsonable_encoder(book)
           IN  /\ BOOKS' = Append(BOOKS, json_book)
               /\ running' = running \cup
                    {Task("add_book", req, json_book, "appended", <<>>)}
        /\ resp' = NoResp
        /\ UNCHANGED <<LOCATIONS, books_json, locations_json, added, failed,
                       dirty>>

add_location(req) ==
  /\ LoopFree
  /\ ready > 0
  /\ ready' = ready - 1
  /\ \/ ~ValidLocation(req) /\ Rejected("add_location", req)
     \/ /\ ValidLocation(req)
        /\ Len(BOOKS) + Len(LOCATIONS) < MaxRecords
        /\ LET json_location == jsonable_encoder(Object("Location", req))
           IN  /\ LOCATIONS' = Append(LOCATIONS, json_location)
               /\ running' = running \cup
                    {Task("add_location", req, json_location, "appended", <<>>)}
        /\ resp' = NoResp
        /\ UNCHANGED <<BOOKS, books_json, locations_json, added, failed, dirty>>

\* the request ends with the unhandled OSError
Raise(t) ==
  /\ running' = running \ {t}
  /\ resp' = Response(t.op, t.req, 500, <<"OSError">>)
  /\ failed' = [failed EXCEPT ![t.op] = TRUE]
  /\ dirty' = [dirty EXCEPT ![t.op] = TRUE]
  /\ IF t.op = "add_book"
     THEN BOOKS' = AfterWriteError(BOOKS) /\ LOCATIONS' = LOCATIONS
     ELSE LOCATIONS' = AfterWriteError(LOCATIONS) /\ BOOKS' = BOOKS
  /\ UNCHANGED <<ready, added>>

\* with open(FILE, "w") as f: json.dump(LIST, f) -- open and encode
OpenFile(t) ==
  /\ t \in running
  /\ t.stage = "appended"
  /\ \/ /\ running' = (running \ {t}) \cup {[t EXCEPT !.stage = "writing",
                                                    !.buf = DumpedList(t.op)]}
        /\ IF t.op = "add_book"
           THEN books_json' = Truncated /\ locations_json' = locations_json
           ELSE locations_json' = Truncated /\ books_json' = books_json
        /\ resp' = NoResp
        /\ UNCHANGED <<BOOKS, LOCATIONS, ready, added, failed, dirty>>
     \/ /\ Raise(t)
        /\ UNCHANGED <<books_json, locations_json>>

\* the 200 of an add handler. race: 2 when this add and the add to the same
\* list answered just before it were in flight at the same time (both are
\* answered now); else 1 when another add is in flight now (waiting, or inside
\* its handler on the same list); else 0.
Answered(t, body) ==
  [Response(t.op, t.req, 200, body) EXCEPT
     !.race = IF t.race = 1 \/ (resp.op = t.op /\ resp.race > 0) THEN 2
              ELSE IF ready > 0 \/ (\E u \in running \ {t} : u.op = t.op) THEN 1
              ELSE 0]

\* the text reaches the file when the with block closes it; the handler returns
WriteFile(t) ==
  /\ t \in running
  /\ t.stage = "writing"
  /\ \/ /\ running' = running \ {t}
        /\ IF t.op = "add_book"
           THEN /\ books_json' = JsonFile(t.buf)
                /\ locations_json' = locations_json
                /\ resp' = Answered(t, [book_id |-> t.rec.book_id])
                /\ added' = Append(added, [t.req EXCEPT
                                             !.book_id = resp'.body.book_id])
           ELSE /\ locations_json' = JsonFile(t.buf)
                /\ books_json' = books_json
                /\ resp' = Answered(t, <<>>)
                /\ added' = added
        /\ dirty' = [dirty EXCEPT ![t.op] = FALSE]
        /\ UNCHANGED <<BOOKS, LOCATIONS, ready, failed>>
     \/ /\ Raise(t)
        /\ UNCHANGED <<books_json, locations_json>>

----------------------------------------------------------------------------
(* The process is stopped between two requests and started again: the      *)
(* module is imported anew and both lists are read from their files.       *)
(* Requests that were waiting are lost with the old process.               *)

Restart ==
  /\ LoopFree
  /\ Loadable(books_json) /\ Loadable(locations_json)
  /\ BOOKS' = StartupLoad(books_json)
  /\ LOCATIONS' = StartupLoad(locations_json)
  /\ ready' = 0
  /\ dirty' = [o \in AddOps |-> FALSE]
  /\ resp' = NoResp
  /\ UNCHANGED <<books_json, locations_json, running, added, failed>>

Next ==
  \/ Issue
  \/ root
  \/ list_books
  \/ \E index \in Indexes : book_by_index(index)
  \/ \E book_id \in QueryIds : get_book(book_id)
  \/ get_locations
  \/ \E req \in BookRequests : add_book(req)
  \/ \E req \in LocationRequests : add_location(req)
  \/ \E t \in running : OpenFile(t)
  \/ \E t \in running : WriteFile(t)
  \/ Restart

Spec == Init /\ [][Next]_vars

----------------------------------------------------------------------------
(* Vocabulary of the properties.                                           *)

ListOf(op) == IF op = "add_book" THEN BOOKS ELSE LOCATIONS

FileOf(op) == IF op = "add_book" THEN books_json ELSE locations_json

KeysOf(op) == IF op = "add_book" THEN BookKeys ELSE LocationKeys

IsPrefix(a, b) == Len(a) <= Len(b) /\ SubSeq(b, 1, Len(a)) = a

\* the file holds exactly the list: a restart would load it back
FileHolds(op) ==
  /\ Loadable(FileOf(op))
  /\ StartupLoad(FileOf(op)) = ListOf(op)
  /\ FileOf(op).kind = "json" => FileOf(op).text = JsonDump(ListOf(op), KeysOf(op))
  /\ FileOf(op).kind = "absent" => ListOf(op) = <<>>

\* the dict is the one the handler builds from the request
BuiltFrom(op, dict, req) ==
  IF op = "add_book"
  THEN dict.name = req.name /\ dict.genre = req.genre /\ dict.price = req.price
  ELSE dict = req

Orderings(n) ==
  {p \in [1..n -> 1..n] : \A i, j \in 1..n : p[i] = p[j] => i = j}

\* the timestamp of us microseconds is the one nearest to the time of t ticks
NearestMicrosecond(us, t) ==
  2 * (us * TicksPerUs - t) <= TicksPerUs /\ 2 * (t - us * TicksPerUs) <= TicksPerUs

----------------------------------------------------------------------------
(* C1. After add_book calls that succeeded, get_book(id) returns the one   *)
(* stored book whose book_id equals id when there is one, and answers 404  *)
(* when there is none; it ends in no other way.                            *)
C1_GetBookFindsOrNotFound ==
  resp.op = "get_book" /\ ~failed["add_book"] =>
    LET hits == {i \in 1..Len(BOOKS) : BOOKS[i].book_id = resp.req}
    IN  IF hits # {}
        THEN /\ resp.status = 200
             /\ Cardinality(hits) = 1
             /\ \E i \in hits : resp.body = BOOKS[i]
        ELSE resp.status = 404

(* C2, as stated. With N the number of add_book calls answered 200,        *)
(* book_by_index(i) returns the i-th added book for 0 <= i < N and answers *)
(* 404, naming i and N, for i >= N.                                        *)
C2_IndexAgainstSuccessfulAdds ==
  resp.op = "book_by_index" /\ resp.req >= 0 =>
    IF resp.req < Len(added)
    THEN resp.status = 200 /\ resp.body = added[resp.req + 1]
    ELSE resp.status = 404 /\ resp.body = NotFoundIndex(resp.req, Len(added))

(* C2, amended. With L the length of the list in memory (every book an     *)
(* add_book appended, whether or not its file write then succeeded),       *)
(* book_by_index(i) returns the i-th book of the list for 0 <= i < L and   *)
(* answers 404, naming i and L, for i >= L; as long as no write of         *)
(* add_book has failed, the list is the list of the books added with a     *)
(* 200, so L is their number and the i-th book the i-th added one.         *)
C2_IndexAgainstList ==
  /\ resp.op = "book_by_index" /\ resp.req >= 0 =>
       IF resp.req < Len(BOOKS)
       THEN resp.status = 200 /\ resp.body = BOOKS[resp.req + 1]
       ELSE /\ resp.status = 404
            /\ resp.body = NotFoundIndex(resp.req, Len(BOOKS))
  /\ ~failed["add_book"] /\ LoopFree => BOOKS = added

C2_Witness ==
  /\ resp.op = "book_by_index" /\ resp.req = 1 /\ resp.status = 200
  /\ Len(added) = 1 /\ Len(BOOKS) = 2

(* C3. book_by_index answers 404 for every index that is not a position    *)
(* of the list, the negative ones included: it returns a book only for     *)
(* 0 <= index < len(BOOKS).                                                *)
C3_OutOfRangeIsNotFound ==
  resp.op = "book_by_index" =>
    IF 0 <= resp.req /\ resp.req < Len(BOOKS)
    THEN resp.status = 200
    ELSE resp.status = 404

(* C4. After successful add_location calls, get_locations returns a        *)
(* permutation of the stored records (same lat, lng and instant, nothing   *)
(* added or dropped), ordered by non-increasing original time; each        *)
(* returned time is the timestamp of original_ms / 1000 seconds.           *)
C4_GetLocationsSortedPermutation ==
  resp.op = "get_locations" /\ ~failed["add_location"] =>
    /\ resp.status = 200
    /\ Len(resp.body) = Len(LOCATIONS)
    /\ \E p \in Orderings(Len(LOCATIONS)) :
         /\ \A i \in 1..Len(LOCATIONS) :
              /\ resp.body[i].lat = LOCATIONS[p[i]].lat
              /\ resp.body[i].lng = LOCATIONS[p[i]].lng
              /\ resp.body[i].time[1] = "iso"
              /\ NearestMicrosecond(resp.body[i].time[2], LOCATIONS[p[i]].time)
         /\ \A i \in 1..(Len(LOCATIONS) - 1) :
              LOCATIONS[p[i]].time >= LOCATIONS[p[i + 1]].time

(* C5. After successful add_book calls, list_books returns the added books *)
(* in insertion order, the k-th carrying the book_id the k-th add_book was *)
(* answered; that id is the generated one, also when the client sent its   *)
(* own.                                                                    *)
C5_ListBooksInsertionOrder ==
  /\ resp.op = "list_books" /\ ~failed["add_book"] =>
       resp.status = 200 /\ resp.body.books = added
  /\ resp.op = "add_book" /\ resp.status = 200 =>
       /\ resp.body.book_id = Uuid(Len(BOOKS))
       /\ resp.body.book_id # resp.req.book_id
       /\ BOOKS[Len(BOOKS)].book_id = resp.body.book_id
       /\ BuiltFrom("add_book", BOOKS[Len(BOOKS)], resp.req)

C5_Witness ==
  /\ resp.op = "list_books" /\ ~failed["add_book"]
  /\ Len(resp.body.books) >= 2
  /\ resp.body.books[1].genre # resp.body.books[2].genre

(* C6. An add_book whose genre is neither "fiction" nor "non-fiction" is   *)
(* answered 422, its handler never runs, and the list and the file of the  *)
(* books stay as they are: nothing is appended, no id is returned.         *)
C6_BadGenreRejected ==
  /\ [](resp.op = "add_book" /\ resp.req.genre \notin GENRES =>
          resp.status = 422 /\ resp.body = <<"ValidationError">>)
  /\ [](\A t \in running : t.op = "add_book" => t.req.genre \in GENRES)
  /\ [][resp'.op = "add_book" /\ resp'.req.genre \notin GENRES =>
          BOOKS' = BOOKS /\ books_json' = books_json /\ added' = added]_vars

C6_Witness ==
  /\ resp.op = "add_book" /\ resp.status = 422 /\ resp.req.genre = "mystery"
  /\ Len(BOOKS) >= 1

(* C7. Whenever no add is inside its handler and no write of a list has    *)
(* failed, the file of the list holds exactly that list (same records,     *)
(* same order); so a restart leaves the list as it was.                    *)
C7_FileMirrorsList ==
  /\ [](\A op \in AddOps : LoopFree /\ ~failed[op] => FileHolds(op))
  /\ [][Restart =>
          /\ ~failed["add_book"] => BOOKS' = BOOKS
          /\ ~failed["add_location"] => LOCATIONS' = LOCATIONS]_vars

C7_Witness ==
  /\ LoopFree /\ ~failed["add_book"] /\ ~failed["add_location"]
  /\ Len(BOOKS) >= 1 /\ Len(LOCATIONS) >= 1
  /\ books_json.kind = "json" /\ locations_json.kind = "json"

(* C8, as stated. When two adds to the same list that were in flight at    *)
(* the same time have both been answered, the file lacks a record that the *)
(* list in memory holds.                                                   *)
C8_LostUpdate ==
  resp.race = 2 =>
    \/ ~Loadable(FileOf(resp.op))
    \/ \E i \in 1..Len(ListOf(resp.op)) :
         \A j \in 1..Len(StartupLoad(FileOf(resp.op))) :
           StartupLoad(FileOf(resp.op))[j] # ListOf(resp.op)[i]

(* C8, amended. Two adds to the same list that are in flight at the same   *)
(* time do not interleave: a handler runs from its append to the end of    *)
(* its write before the other starts, so once both are answered the file   *)
(* holds exactly the list in memory, both records included.                *)
C8_NoLostUpdate ==
  /\ Cardinality(running) <= 1
  /\ resp.race = 2 => FileHolds(resp.op) /\ Len(ListOf(resp.op)) >= 2

C8_Witness ==
  /\ resp.race = 2 /\ resp.op = "add_book" /\ resp.status = 200
  /\ Len(BOOKS) = 2 /\ Len(added) = 2

(* C9. When the file write of an add fails, the request ends with the      *)
(* unhandled error and no id, the new record stays in the list and is      *)
(* served by list_books and book_by_index, and the file differs from the   *)
(* list until a later add to it succeeds.                                  *)
C9_NoRollback ==
  /\ [](\A op \in AddOps : resp.op = op /\ resp.status = 500 =>
          /\ resp.body = <<"OSError">>
          /\ Len(ListOf(op)) > 0
          /\ BuiltFrom(op, ListOf(op)[Len(ListOf(op))], resp.req)
          /\ dirty[op])
  /\ [](\A op \in AddOps : dirty[op] => ~FileHolds(op))
  /\ [](resp.op = "list_books" => resp.body.books = BOOKS)
  /\ [](resp.op = "book_by_index" /\ resp.req = Len(BOOKS) - 1 /\ resp.req >= 0
          => resp.body = BOOKS[Len(BOOKS)])
  /\ [][~Restart => IsPrefix(BOOKS, BOOKS') /\ IsPrefix(LOCATIONS, LOCATIONS')]_vars

C9_Witness ==
  /\ resp.op = "list_books" /\ dirty["add_book"]
  /\ Len(resp.body.books) = 2 /\ Len(added) = 1

(* C10. A step of the running process leaves both lists as they are or     *)
(* appends one record to one of them: add_book touches only BOOKS,         *)
(* add_location only LOCATIONS, and the read handlers neither.             *)
C10_Frame ==
  [][~Restart =>
       /\ \/ BOOKS' = BOOKS /\ LOCATIONS' = LOCATIONS
          \/ /\ Len(BOOKS') = Len(BOOKS) + 1
             /\ IsPrefix(BOOKS, BOOKS')
             /\ LOCATIONS' = LOCATIONS
          \/ /\ Len(LOCATIONS') = Len(LOCATIONS) + 1
             /\ IsPrefix(LOCATIONS, LOCATIONS')
             /\ BOOKS' = BOOKS
       /\ (\E t \in running \cup running' : t.op = "add_book")
            => LOCATIONS' = LOCATIONS
       /\ (\E t \in running \cup running' : t.op = "add_location")
            => BOOKS' = BOOKS
       /\ resp'.op \in {"root", "list_books", "book_by_index", "get_book",
                        "get_locations"}
            => BOOKS' = BOOKS /\ LOCATIONS' = LOCATIONS]_vars

C10_Witness ==
  /\ resp.op = "get_locations" /\ resp.status = 200
  /\ Len(LOCATIONS) >= 2 /\ LOCATIONS[1].time < LOCATIONS[2].time
  /\ Len(BOOKS) >= 1

====
